---- MODULE Spec2Model ----
(***************************************************************************)
(* Model of terraform_utils/hcl.go: the AST sanitizer (astSanitizer), the  *)
(* text patches of hclPrint, the name sanitizer TfSanitize and the         *)
(* document builder HclPrint.                                              *)
(*                                                                         *)
(* A Go string is modelled as a sequence of one-character strings, so that *)
(* slicing, strings.Replace, strings.Split and strings.Join are computed   *)
(* character by character as the Go library computes them.                 *)
(***************************************************************************)
EXTENDS Integers, Sequences, FiniteSets, TLC

VARIABLES
    pc,         \* "start" before the call of the specification, then "done"
    name,       \* TfSanitize: the argument
    tfName,     \* TfSanitize: the returned string
    tfName2,    \* TfSanitize: the string returned for tfName as the argument
    resources,  \* HclPrint: the []TerraformResource argument
    provider,   \* HclPrint: the provider argument (as a JSON value)
    hclErr,     \* HclPrint: "" or the error returned before Parse is reached
    hclOut,     \* HclPrint: the bytes returned with hclErr
    dataJson,   \* HclPrint: the text handed to hcl_parcer.Parse
    node,       \* astSanitizer: the tree, mutated in place
    node0,      \* astSanitizer: the tree as the parser produced it
    panicked,   \* astSanitizer: TRUE when visit ended in a runtime panic
    rendered,   \* hclPrint: b.String(), the text the external printer wrote
    spaced,     \* hclPrint: s after the two whitespace replacements
    patched     \* hclPrint: s as handed to hcl_printer.Format

vars == <<pc, name, tfName, tfName2, resources, provider, hclErr, hclOut, dataJson,
          node, node0, panicked, rendered, spaced, patched>>

----------------------------------------------------------------------------
(* Characters *)

NL == "\n"
QUOTE == "\""
BSL == "\\"

----------------------------------------------------------------------------
(* strings.* of the Go library, on character sequences *)

HasPrefixAt(s, i, p) ==
    /\ i + Len(p) - 1 <= Len(s)
    /\ SubSeq(s, i, i + Len(p) - 1) = p

\* strings.HasPrefix(s, p)
HasPrefix(s, p) == HasPrefixAt(s, 1, p)

\* strings.Contains(s, p)
Contains(s, p) == \E i \in 1..Len(s) : HasPrefixAt(s, i, p)

\* strings.Index(s[i:], p), as a place of s; 0 when there is none
IndexFrom(s, i, p) ==
    LET at == {j \in i..Len(s) : HasPrefixAt(s, j, p)}
    IN  IF at = {} THEN 0 ELSE CHOOSE j \in at : \A k \in at : j <= k

RECURSIVE ReplaceFrom(_, _, _, _)
ReplaceFrom(s, old, new, i) ==
    LET j == IndexFrom(s, i, old)
    IN  IF j = 0 THEN SubSeq(s, i, Len(s))
        ELSE SubSeq(s, i, j - 1) \o new \o ReplaceFrom(s, old, new, j + Len(old))

\* strings.Replace(s, old, new, -1) for a non-empty old: the occurrences are
\* found left to right, without overlap, in the ORIGINAL text (one pass).
Replace(s, old, new) == ReplaceFrom(s, old, new, 1)

RECURSIVE SplitFrom(_, _)
SplitFrom(s, i) ==
    LET j == IndexFrom(s, i, <<NL>>)
    IN  IF j = 0 THEN <<SubSeq(s, i, Len(s))>>
        ELSE <<SubSeq(s, i, j - 1)>> \o SplitFrom(s, j + 1)

\* strings.Split(s, "\n"): always at least one element
Split(s) == SplitFrom(s, 1)

RECURSIVE Join(_)
\* strings.Join(lines, "\n")
Join(lines) ==
    IF Len(lines) = 0 THEN <<>>
    ELSE IF Len(lines) = 1 THEN lines[1]
         ELSE lines[1] \o <<NL>> \o Join(Tail(lines))

RECURSIVE Concat(_)
Concat(ss) == IF Len(ss) = 0 THEN <<>> ELSE ss[1] \o Concat(Tail(ss))

\* all sequences of at most n elements of S
SeqsUpTo(S, n) == UNION {[1..k -> S] : k \in 0..n}

----------------------------------------------------------------------------
(* TfSanitize *)

\* strings.Replace(s, old, new, 1): the first occurrence only
ReplaceFirst(s, old, new) ==
    LET j == IndexFrom(s, 1, old)
    IN  IF j = 0 THEN s
        ELSE SubSeq(s, 1, j - 1) \o new \o SubSeq(s, j + Len(old), Len(s))

\* TfSanitize with a count of 1 in place of -1
TfSanitizeFirstOnly(nm) ==
    ReplaceFirst(ReplaceFirst(ReplaceFirst(nm, <<"*", ".">>, <<>>),
                              <<".">>, <<"-">>),
                 <<"/">>, <<"-", "-">>)

\* func TfSanitize(name string) string
TfSanitize(nm) ==
    Replace(Replace(Replace(nm, <<"*", ".">>, <<>>), <<".">>, <<"-">>),
            <<"/">>, <<"-", "-">>)

----------------------------------------------------------------------------
(* JSON values (interface{} as encoding/json reads and writes it).         *)
(* kind "null": the nil interface; "str": a string; "num": a number, kept  *)
(* as the text encoding/json writes for the float64; "bool": true or false, *)
(* kept as its text; "obj": a map[string]interface{}, m being the map;      *)
(* "arr": a []interface{}, a being the elements.                            *)

Nil == [kind |-> "null", s |-> <<>>, m |-> <<>>, a |-> <<>>]
StrV(s) == [kind |-> "str", s |-> s, m |-> <<>>, a |-> <<>>]
NumV(s) == [kind |-> "num", s |-> s, m |-> <<>>, a |-> <<>>]
BoolV(s) == [kind |-> "bool", s |-> s, m |-> <<>>, a |-> <<>>]
ObjV(m) == [kind |-> "obj", s |-> <<>>, m |-> m, a |-> <<>>]
ArrV(a) == [kind |-> "arr", s |-> <<>>, m |-> <<>>, a |-> a]

\* make(map[string]interface{})
EmptyMap == <<>>

\* m[k] of a Go map: the zero value (nil) for a missing key
Lookup(m, k) == IF k \in DOMAIN m THEN m[k] ELSE Nil

\* m[k] = v
Put(m, k, v) == [x \in (DOMAIN m) \cup {k} |-> IF x = k THEN v ELSE m[x]]

\* The tab, the newline, the carriage return and the printable ASCII
\* characters (the backquote left out) in byte order: the characters the
\* texts of the model are written in.
Ascii ==
    <<"\t", NL, "\r", " ", "!", QUOTE, "#", "$", "%", "&", "'", "(", ")", "*", "+", ",",
      "-", ".", "/", "0", "1", "2", "3", "4", "5", "6", "7", "8", "9", ":",
      ";", "<", "=", ">", "?", "@", "A", "B", "C", "D", "E", "F", "G", "H",
      "I", "J", "K", "L", "M", "N", "O", "P", "Q", "R", "S", "T", "U", "V",
      "W", "X", "Y", "Z", "[", BSL, "]", "^", "_", "a", "b", "c", "d",
      "e", "f", "g", "h", "i", "j", "k", "l", "m", "n", "o", "p", "q", "r",
      "s", "t", "u", "v", "w", "x", "y", "z", "{", "|", "}", "~">>

\* The byte of the character at place i of Ascii
Byte(i) ==
    IF i = 1 THEN 9 ELSE IF i = 2 THEN 10 ELSE IF i = 3 THEN 13
    ELSE IF i <= 67 THEN i + 28 ELSE i + 29

\* The character of the code point n: the one-character string when Ascii
\* holds it, and for every other code point a string that names it.
Rune(n) ==
    IF \E i \in 1..Len(Ascii) : Byte(i) = n
    THEN Ascii[CHOOSE i \in 1..Len(Ascii) : Byte(i) = n]
    ELSE ToString(<<n>>)

\* unicode.MaxRune
MaxRune == 1114111

\* The code point of a character
Ord(c) ==
    IF \E i \in 1..Len(Ascii) : Ascii[i] = c
    THEN Byte(CHOOSE i \in 1..Len(Ascii) : Ascii[i] = c)
    ELSE CHOOSE n \in 0..MaxRune : Rune(n) = c

RECURSIVE Less(_, _)
\* a < b of two Go strings. Go compares the bytes; the bytes of UTF-8 put
\* two strings in the order of their code points.
Less(a, b) ==
    IF Len(b) = 0 THEN FALSE
    ELSE IF Len(a) = 0 THEN TRUE
    ELSE IF a[1] = b[1] THEN Less(Tail(a), Tail(b))
    ELSE Ord(a[1]) < Ord(b[1])

RECURSIVE SortedKeys(_)
\* the keys of a map in the order encoding/json writes them (sorted)
SortedKeys(ks) ==
    IF ks = {} THEN <<>>
    ELSE LET k == CHOOSE x \in ks : \A y \in ks \ {x} : Less(x, y)
         IN <<k>> \o SortedKeys(ks \ {k})

\* the characters below 0x20
ControlRunes == {Rune(n) : n \in 0..31}

HexDigits == <<"0", "1", "2", "3", "4", "5", "6", "7", "8", "9",
               "a", "b", "c", "d", "e", "f">>
HexUpper == <<"0", "1", "2", "3", "4", "5", "6", "7", "8", "9",
              "A", "B", "C", "D", "E", "F">>

\* \u00XX of a character below 0x20
EscapeControl(c) ==
    LET n == CHOOSE k \in 0..31 : Rune(k) = c
    IN  <<BSL, "u", "0", "0", HexDigits[(n \div 16) + 1], HexDigits[(n % 16) + 1]>>

\* encoding/json's string escaping with HTML escaping on (Marshal's default).
\* The backspace and the form feed are written \b and \f, as the library
\* writes them since Go 1.22 (\u0008 and \u000c before); both read back as
\* the same character.
EscapeChar(c) ==
    IF c = QUOTE THEN <<BSL, QUOTE>>
    ELSE IF c = BSL THEN <<BSL, BSL>>
    ELSE IF c = NL THEN <<BSL, "n">>
    ELSE IF c = "\r" THEN <<BSL, "r">>
    ELSE IF c = "\t" THEN <<BSL, "t">>
    ELSE IF c = Rune(8) THEN <<BSL, "b">>
    ELSE IF c = Rune(12) THEN <<BSL, "f">>
    ELSE IF c \in ControlRunes THEN EscapeControl(c)
    ELSE IF c = "<" THEN <<BSL, "u", "0", "0", "3", "c">>
    ELSE IF c = ">" THEN <<BSL, "u", "0", "0", "3", "e">>
    ELSE IF c = "&" THEN <<BSL, "u", "0", "0", "2", "6">>
    ELSE IF c = Rune(8232) THEN <<BSL, "u", "2", "0", "2", "8">>
    ELSE IF c = Rune(8233) THEN <<BSL, "u", "2", "0", "2", "9">>
    ELSE <<c>>

RECURSIVE EscapeString(_)
EscapeString(s) ==
    IF Len(s) = 0 THEN <<>> ELSE EscapeChar(s[1]) \o EscapeString(Tail(s))

QuoteString(s) == <<QUOTE>> \o EscapeString(s) \o <<QUOTE>>

RECURSIVE Indent(_)
Indent(d) == IF d = 0 THEN <<>> ELSE <<" ", " ">> \o Indent(d - 1)

RECURSIVE MarshalAt(_, _)
RECURSIVE MarshalMembers(_, _, _)
RECURSIVE MarshalElems(_, _)
MarshalElems(a, d) ==
    IF Len(a) = 0 THEN <<>>
    ELSE Indent(d) \o MarshalAt(a[1], d)
         \o (IF Len(a) > 1 THEN <<",", NL>> ELSE <<>>)
         \o MarshalElems(Tail(a), d)

MarshalMembers(m, ks, d) ==
    IF Len(ks) = 0 THEN <<>>
    ELSE Indent(d) \o QuoteString(ks[1]) \o <<":", " ">>
         \o MarshalAt(m[ks[1]], d)
         \o (IF Len(ks) > 1 THEN <<",", NL>> ELSE <<>>)
         \o MarshalMembers(m, Tail(ks), d)

MarshalAt(v, d) ==
    IF v.kind = "null" THEN <<"n", "u", "l", "l">>
    ELSE IF v.kind = "str" THEN QuoteString(v.s)
    ELSE IF v.kind = "num" \/ v.kind = "bool" THEN v.s
    ELSE IF v.kind = "arr"
         THEN IF Len(v.a) = 0 THEN <<"[", "]">>
              ELSE <<"[", NL>> \o MarshalElems(v.a, d + 1)
                   \o <<NL>> \o Indent(d) \o <<"]">>
    ELSE IF DOMAIN v.m = {} THEN <<"{", "}">>
    ELSE <<"{", NL>> \o MarshalMembers(v.m, SortedKeys(DOMAIN v.m), d + 1)
         \o <<NL>> \o Indent(d) \o <<"}">>

\* json.MarshalIndent(v, "", "  ")
MarshalIndent(v) == MarshalAt(v, 0)

----------------------------------------------------------------------------
(* json.Unmarshal(data, &tmp), tmp a map[string]interface{}.               *)
(* A value is read as an interface{}: an object as a map, an array as a    *)
(* slice, a number as a float64 (kept as the text MarshalIndent writes for *)
(* it).                                                                    *)

Digits == {"0", "1", "2", "3", "4", "5", "6", "7", "8", "9"}

IsSpace(c) == c \in {" ", NL, "\t", "\r"}

\* the place of the first character from i on that is no space
SkipSpace(s, i) ==
    IF \E j \in i..Len(s) : ~IsSpace(s[j])
    THEN CHOOSE j \in i..Len(s) :
             ~IsSpace(s[j]) /\ \A k \in i..(j - 1) : IsSpace(s[k])
    ELSE IF i > Len(s) THEN i ELSE Len(s) + 1

\* What reading a value returns: ok = FALSE for a syntax error; else the
\* value v, the place pos after it, and saved = TRUE when the decoder has
\* saved an error while reading it (d.saveError: the first error is kept
\* and returned by Unmarshal, whatever is read and stored after it).
Fail == [ok |-> FALSE, pos |-> 0, v |-> Nil, saved |-> FALSE]
Ok(p, v) == [ok |-> TRUE, pos |-> p, v |-> v, saved |-> FALSE]
Saved(p, v) == [ok |-> TRUE, pos |-> p, v |-> v, saved |-> TRUE]

IsHex(c) == \E i \in 1..16 : HexDigits[i] = c \/ HexUpper[i] = c
HexVal(c) == (CHOOSE i \in 1..16 : HexDigits[i] = c \/ HexUpper[i] = c) - 1

\* getu4: the value of the escape \uXXXX at place i of s, -1 when the text
\* at i is not such an escape
getu4(s, i) ==
    IF /\ i + 5 <= Len(s)
       /\ s[i] = BSL /\ s[i + 1] = "u"
       /\ \A k \in 2..5 : IsHex(s[i + k])
    THEN 4096 * HexVal(s[i + 2]) + 256 * HexVal(s[i + 3])
         + 16 * HexVal(s[i + 4]) + HexVal(s[i + 5])
    ELSE -1

\* utf16.IsSurrogate
IsSurrogate(r) == 55296 <= r /\ r < 57344

\* the character of the escape \uXXXX of value rr at place i, rr1 being
\* the value of the escape after it, and the place after it. A surrogate
\* followed by the escape of its other half is the code point of the pair;
\* any other surrogate is U+FFFD.
UnicodeEscape(rr, rr1, i) ==
    IF rr < 0 THEN [ok |-> FALSE, pos |-> i, c |-> ""]
    ELSE IF IsSurrogate(rr)
    THEN IF rr < 56320 /\ 56320 <= rr1 /\ rr1 < 57344
         THEN [ok |-> TRUE, pos |-> i + 12,
               c |-> Rune(65536 + (rr - 55296) * 1024 + (rr1 - 56320))]
         ELSE [ok |-> TRUE, pos |-> i + 6, c |-> Rune(65533)]
    ELSE [ok |-> TRUE, pos |-> i + 6, c |-> Rune(rr)]

\* the code point of the one-letter escape \c, -1 when there is none
SimpleEscape(c) ==
    IF c = QUOTE THEN 34 ELSE IF c = BSL THEN 92 ELSE IF c = "/" THEN 47
    ELSE IF c = "b" THEN 8 ELSE IF c = "f" THEN 12 ELSE IF c = "n" THEN 10
    ELSE IF c = "r" THEN 13 ELSE IF c = "t" THEN 9 ELSE -1

\* the character at place i of a string and the place after it; ok = FALSE
\* for a backslash that starts no escape
Unquote(s, i) ==
    IF s[i] # BSL THEN [ok |-> TRUE, pos |-> i + 1, c |-> s[i]]
    ELSE IF i + 1 > Len(s) THEN [ok |-> FALSE, pos |-> i, c |-> ""]
    ELSE IF s[i + 1] = "u" THEN UnicodeEscape(getu4(s, i), getu4(s, i + 6), i)
    ELSE IF SimpleEscape(s[i + 1]) < 0 THEN [ok |-> FALSE, pos |-> i, c |-> ""]
    ELSE [ok |-> TRUE, pos |-> i + 2, c |-> Rune(SimpleEscape(s[i + 1]))]

RECURSIVE ScanString(_, _, _)
RECURSIVE ScanNext(_, _, _)
\* u is the character read and the place after it
ScanNext(s, acc, u) ==
    IF ~u.ok THEN Fail ELSE ScanString(s, u.pos, Append(acc, u.c))

\* i is the place after the opening quote
ScanString(s, i, acc) ==
    IF i > Len(s) THEN Fail
    ELSE IF s[i] = QUOTE THEN Ok(i + 1, StrV(acc))
    ELSE IF s[i] \in ControlRunes THEN Fail
    ELSE ScanNext(s, acc, Unquote(s, i))

\* the place of the first character from i on that is no digit
ScanDigits(s, i) ==
    IF \E j \in i..Len(s) : s[j] \notin Digits
    THEN CHOOSE j \in i..Len(s) :
             s[j] \notin Digits /\ \A k \in i..(j - 1) : s[k] \in Digits
    ELSE IF i > Len(s) THEN i ELSE Len(s) + 1

\* the digits without their leading zeros
StripLeft(ds) ==
    IF \A i \in 1..Len(ds) : ds[i] = "0" THEN <<>>
    ELSE SubSeq(ds, CHOOSE i \in 1..Len(ds) :
                        ds[i] # "0" /\ \A j \in 1..(i - 1) : ds[j] = "0",
                Len(ds))

\* the digits without their trailing zeros
StripRight(ds) ==
    IF \A i \in 1..Len(ds) : ds[i] = "0" THEN <<>>
    ELSE SubSeq(ds, 1, CHOOSE i \in 1..Len(ds) :
                           ds[i] # "0" /\ \A j \in (i + 1)..Len(ds) : ds[j] = "0")

DigitVal(c) == HexVal(c)

RECURSIVE NatOf(_, _)
\* the number the digits write
NatOf(ds, acc) ==
    IF Len(ds) = 0 THEN acc ELSE NatOf(Tail(ds), 10 * acc + DigitVal(ds[1]))

\* the exponent the digits write, as strconv's readFloat adds them up:
\* e = e*10 + digit only while e < 10000. Leading zeros leave e at 0, and
\* the fifth digit after them is the last one added, so e is the number
\* the first five digits after the leading zeros write.
ExpOf(ds) ==
    LET t == StripLeft(ds)
    IN  NatOf(SubSeq(t, 1, IF Len(t) > 5 THEN 5 ELSE Len(t)), 0)

RECURSIVE DigitsOf(_)
\* the digits of a natural number
DigitsOf(n) ==
    IF n < 10 THEN <<HexDigits[n + 1]>>
    ELSE DigitsOf(n \div 10) \o <<HexDigits[(n % 10) + 1]>>

Zeros(n) == SubSeq([i \in 1..n |-> "0"], 1, n)

max(a, b) == IF a < b THEN b ELSE a

----------------------------------------------------------------------------
(* float64: strconv.ParseFloat(s, 64), which encoding/json reads a number  *)
(* with, and strconv.AppendFloat(b, f, fmt, -1, 64), which it writes one   *)
(* with, both computed exactly. A natural number is a sequence of digits   *)
(* 0..9, the most significant first; the numbers of one computation are    *)
(* written with one count of digits, enough for every result.              *)

\* the number the characters ds write
NatDigits(ds) == SubSeq([i \in 1..Len(ds) |-> DigitVal(ds[i])], 1, Len(ds))

\* the characters that write the number a
NatText(a) == SubSeq([i \in 1..Len(a) |-> HexDigits[a[i] + 1]], 1, Len(a))

\* a * 10^n written with w digits
NatE(a, n, w) ==
    SubSeq([i \in 1..w |-> IF i <= w - n - Len(a) \/ i > w - n THEN 0
                           ELSE a[i - (w - n - Len(a))]], 1, w)

One(w) == NatE(<<1>>, 0, w)

\* a * 10^n
NatShift(a, n) ==
    SubSeq([i \in 1..Len(a) |-> IF i + n <= Len(a) THEN a[i + n] ELSE 0],
           1, Len(a))

\* a < b
NatLess(a, b) ==
    \E i \in 1..Len(a) : a[i] < b[i] /\ \A j \in 1..(i - 1) : a[j] = b[j]

\* a <= b
NatLeq(a, b) == ~NatLess(b, a)

\* 2 * a: a digit from 5 on carries into the place before it
NatDouble(a) ==
    SubSeq([i \in 1..Len(a) |->
               (2 * a[i] + (IF i < Len(a) /\ a[i + 1] >= 5 THEN 1 ELSE 0)) % 10],
           1, Len(a))

\* a + b: place i takes a carry when the places after it add up to 9 each
\* up to one that adds up to 10 or more
NatAdd(a, b) ==
    SubSeq([i \in 1..Len(a) |->
               (a[i] + b[i]
                + (IF \E j \in (i + 1)..Len(a) :
                          /\ a[j] + b[j] >= 10
                          /\ \A k \in (i + 1)..(j - 1) : a[k] + b[k] = 9
                   THEN 1 ELSE 0)) % 10],
           1, Len(a))

\* a - b for a >= b: place i lends when the places after it are equal up
\* to one where a has the smaller digit
NatSub(a, b) ==
    SubSeq([i \in 1..Len(a) |->
               (10 + a[i] - b[i]
                - (IF \E j \in (i + 1)..Len(a) :
                          /\ a[j] < b[j]
                          /\ \A k \in (i + 1)..(j - 1) : a[k] = b[k]
                   THEN 1 ELSE 0)) % 10],
           1, Len(a))

RECURSIVE NatShl(_, _)
\* a * 2^k, a computed first (the test of its length makes TLC evaluate it
\* here and not within the doublings that follow)
NatShlNext(a, k) == IF Len(a) = 0 THEN a ELSE NatShl(a, k)

\* a * 2^k
NatShl(a, k) ==
    IF k <= 0 THEN a
    ELSE IF k = 1 THEN NatDouble(a)
    ELSE NatShlNext(NatShl(a, k \div 2), k - k \div 2)

\* a count of digits that 2^k can be written with
Pow2Len(k) == IF k <= 0 THEN 1 ELSE (k * 30103) \div 100000 + 1

\* a number below the binary logarithm of every number whose decimal
\* logarithm is above l
Log2Below(l) ==
    IF l >= 0 THEN (l * 33219) \div 10000 - 1
    ELSE -(((-l) * 33220 + 9999) \div 10000) - 1

\* the count of digits a float64's mantissa is written with
MantLen == 17

\* 2^52 and 2^53
Pow52 == <<0, 4, 5, 0, 3, 5, 9, 9, 6, 2, 7, 3, 7, 0, 4, 9, 6>>
Pow53 == <<0, 9, 0, 0, 7, 1, 9, 9, 2, 5, 4, 7, 4, 0, 9, 9, 2>>

\* A float64 is the number m * 2^q, with m < 2^53 and q >= -1074, and
\* m >= 2^52 where q > -1074; inf is an overflow (ParseFloat's ErrRange).
Inf == [inf |-> TRUE, m |-> NatE(<<>>, 0, MantLen), q |-> 0]
Float64(m, q) == [inf |-> q > 971, m |-> m, q |-> q]

RECURSIVE Normal(_, _, _)
\* the number A/B * 2^e, A >= B, written with B <= A < 2B
Normal(A, B, e) ==
    IF NatLess(A, NatDouble(B)) THEN [A |-> A, B |-> B, e |-> e]
    ELSE Normal(A, NatDouble(B), e + 1)

\* the next bit of R/B, R < 2B, onto the mantissa m
BitStep(st, B) ==
    IF NatLess(st.R, B)
    THEN [R |-> NatDouble(st.R), m |-> NatDouble(st.m)]
    ELSE [R |-> NatDouble(NatSub(st.R, B)),
          m |-> NatAdd(NatDouble(st.m), One(MantLen))]

RECURSIVE Bits(_, _, _)
\* the next k bits, st computed first
BitsNext(st, B, k) == IF Len(st.R) = 0 THEN st ELSE Bits(st, B, k)

\* the next k bits
Bits(st, B, k) ==
    IF k <= 0 THEN st
    ELSE IF k = 1 THEN BitStep(st, B)
    ELSE BitsNext(Bits(st, B, k \div 2), B, k - k \div 2)

\* the mantissa rounded to the nearest, a tie to the even one; st.R/B is
\* twice what the mantissa st.m leaves out
Rounded(st, B, q) ==
    LET up == NatLess(B, st.R) \/ (st.R = B /\ st.m[MantLen] % 2 = 1)
        m == IF up THEN NatAdd(st.m, One(MantLen)) ELSE st.m
    IN  IF m = Pow53 THEN Float64(Pow52, q + 1) ELSE Float64(m, q)

\* the float64 of n.A/n.B * 2^n.e with nb bits of mantissa: 53, and fewer
\* below 2^-1022
Mantissa(n, nb) ==
    IF n.e > 1023 THEN Inf
    ELSE IF nb < 0 THEN Float64(NatE(<<>>, 0, MantLen), -1074)
    ELSE Rounded(Bits([R |-> n.A, m |-> NatE(<<>>, 0, MantLen)], n.B, nb),
                 n.B, n.e - nb + 1)

Round(n) == Mantissa(n, IF n.e >= -1022 THEN 53 ELSE 53 - (-1022 - n.e))

\* A/B written as (A * 2^-e) / (B * 2^e) * 2^e, for an e that is below the
\* binary logarithm of A/B
Scaled(A, B, e) ==
    Normal(IF e < 0 THEN NatShl(A, -e) ELSE A,
           IF e > 0 THEN NatShl(B, e) ELSE B, e)

\* the float64 nearest to 0.ds * 10^dp, ds the digits without leading and
\* trailing zeros and not empty: strconv.ParseFloat(s, 64), which answers
\* without looking at the digits above dp = 310 and below dp = -330
ParseFloat(ds, dp) ==
    IF dp > 310 THEN Inf
    ELSE IF dp < -330 THEN Float64(NatE(<<>>, 0, MantLen), -1074)
    ELSE LET e10 == dp - Len(ds)
             lenA == Len(ds) + max(e10, 0)
             lenB == 1 + max(-e10, 0)
             e == Log2Below(lenA - lenB - 1)
             w == max(lenA + Pow2Len(-e), lenB + Pow2Len(e)) + 2
         IN  Round(Scaled(NatE(NatDigits(ds), max(e10, 0), w),
                          NatE(<<1>>, max(-e10, 0), w), e))

\* S, 2S, ..., 9S
Multiples(S) ==
    LET S2 == NatDouble(S)
        S3 == NatAdd(S2, S)
        S4 == NatDouble(S2)
    IN  <<S, S2, S3, S4, NatAdd(S4, S), NatDouble(S3),
          NatAdd(NatDouble(S3), S), NatDouble(S4), NatAdd(NatDouble(S4), S)>>

\* the last digit: d or d + 1, the nearer one where both write the float64
\* (a tie to the even one)
LastDigit(d, R, S, low, high) ==
    IF low /\ ~high THEN d
    ELSE IF high /\ ~low THEN d + 1
    ELSE IF NatLess(NatDouble(R), S) THEN d
    ELSE IF NatLess(S, NatDouble(R)) THEN d + 1
    ELSE IF d % 2 = 0 THEN d ELSE d + 1

RECURSIVE Generate(_, _, _, _, _, _)
\* d is the next digit and R/S what is left after it: the digits end when
\* they are within Mm/S below or Mp/S above the float64, the bounds of the
\* numbers that round to it (the bounds themselves do for an even mantissa)
Decide(R, d, Mp, Mm, mul, even, acc) ==
    LET low == IF even THEN NatLeq(R, Mm) ELSE NatLess(R, Mm)
        high == IF even THEN NatLeq(mul[1], NatAdd(R, Mp))
                ELSE NatLess(mul[1], NatAdd(R, Mp))
    IN  IF ~low /\ ~high
        THEN Generate(R, Mp, Mm, mul, even, Append(acc, d))
        ELSE Append(acc, LastDigit(d, R, mul[1], low, high))

\* the digit of R/S, R < 10 S, and what it leaves
NextDigit(R, d, Mp, Mm, mul, even, acc) ==
    Decide(IF d = 0 THEN R ELSE NatSub(R, mul[d]), d, Mp, Mm, mul, even, acc)

\* the shortest digits of R/S, R < S
Generate(R, Mp, Mm, mul, even, acc) ==
    NextDigit(NatShift(R, 1),
              Cardinality({j \in 1..9 : NatLeq(mul[j], NatShift(R, 1))}),
              NatShift(Mp, 1), NatShift(Mm, 1), mul, even, acc)

\* the float64 is R/S * 10^k: k is one more where its upper bound reaches 1
FixUp(R, S, Mp, Mm, even, k) ==
    IF (even /\ NatLeq(S, NatAdd(R, Mp))) \/ (~even /\ NatLess(S, NatAdd(R, Mp)))
    THEN [ds |-> Generate(R, Mp, Mm, Multiples(NatShift(S, 1)), even, <<>>),
          dp |-> k + 1]
    ELSE [ds |-> Generate(R, Mp, Mm, Multiples(S), even, <<>>), dp |-> k]

\* the shortest digits ds that read back as the float64 m * 2^q, m > 0, and
\* the place dp of the decimal point (the float64 is 0.ds * 10^dp to within
\* its rounding): strconv's 'shortest' formatting (precision -1). k is a
\* place of the decimal point at most one below dp. The numbers that round
\* to the float64 lie half a unit of its last bit above it and below it,
\* and a quarter of one below it where m = 2^52.
Shortest(m, q, k) ==
    LET b == IF m = Pow52 /\ q > -1074 THEN 1 ELSE 0
        w == max(MantLen + Pow2Len(max(q, 0) + 2) + max(-k, 0),
                 Pow2Len(max(-q, 0) + 2) + max(k, 0) + 1) + 3
    IN  FixUp(NatShift(NatShl(NatE(m, 0, w), max(q, 0) + 1 + b), max(-k, 0)),
              NatShift(NatShl(One(w), max(-q, 0) + 1 + b), max(k, 0)),
              NatShift(NatShl(One(w), max(q, 0) + b), max(-k, 0)),
              NatShift(NatShl(One(w), max(q, 0)), max(-k, 0)),
              m[MantLen] % 2 = 0, k)

\* the text encoding/json writes for the float64 of shortest digits ds and
\* decimal point p (0.ds * 10^p): format 'f', and format 'e' below 1e-6 and
\* from 1e21 on, with an exponent of one digit where it has one
FormatFloat(neg, ds, p) ==
    LET sign == IF neg THEN <<"-">> ELSE <<>>
        k == Len(ds)
        x == p - 1
    IN  IF k = 0 THEN sign \o <<"0">>
        ELSE IF p <= -6 \/ p >= 22
        THEN sign \o <<ds[1]>>
             \o (IF k > 1 THEN <<".">> \o SubSeq(ds, 2, k) ELSE <<>>)
             \o <<"e">> \o (IF x < 0 THEN <<"-">> ELSE <<"+">>)
             \o DigitsOf(IF x < 0 THEN -x ELSE x)
        ELSE IF p <= 0 THEN sign \o <<"0", ".">> \o Zeros(-p) \o ds
        ELSE IF p >= k THEN sign \o ds \o Zeros(p - k)
        ELSE sign \o SubSeq(ds, 1, p) \o <<".">> \o SubSeq(ds, p + 1, k)

\* the text of the shortest digits sh
ShortestText(neg, sh) == FormatFloat(neg, NatText(sh.ds), sh.dp)

\* f is the float64 read and pos the place after the number. On an
\* overflow convertNumber returns nil and ParseFloat's error, which the
\* decoder saves; it stores the nil and reads on.
Converted(neg, f, dp, pos) ==
    IF f.inf THEN Saved(pos, Nil)
    ELSE IF f.m = NatE(<<>>, 0, MantLen)
    THEN Ok(pos, NumV(FormatFloat(neg, <<>>, 0)))
    ELSE Ok(pos, NumV(ShortestText(neg, Shortest(f.m, f.q, dp))))

\* the float64 of 0.ds * 10^dp, as the text it is written back with
Number(neg, ds, dp, pos) ==
    IF Len(ds) = 0 THEN Ok(pos, NumV(FormatFloat(neg, <<>>, 0)))
    ELSE Converted(neg, ParseFloat(ds, dp), dp, pos)

\* the float64 of the digits all, with intLen of them before the point,
\* times 10^exp
Float(neg, all, intLen, exp, pos) ==
    Number(neg, StripRight(StripLeft(all)),
           intLen + exp - (Len(all) - Len(StripLeft(all))), pos)


\* the exponent part, from place e2 on: j is the place of the first digit,
\* e1 the place after the integer part, frac the digits of the fraction
ScanExp(s, j, e1, frac, e2) ==
    LET neg == j > 1 /\ s[j - 1] = "-"
        int == SubSeq(s, j, e1 - 1)
    IN  IF e2 <= Len(s) /\ s[e2] \in {"e", "E"}
        THEN LET x1 == IF e2 + 1 <= Len(s) /\ s[e2 + 1] \in {"+", "-"}
                       THEN e2 + 2 ELSE e2 + 1
                 mag == ExpOf(SubSeq(s, x1, ScanDigits(s, x1) - 1))
             IN  IF ScanDigits(s, x1) = x1 THEN Fail
                 ELSE Float(neg, int \o frac, Len(int),
                            IF s[e2 + 1] = "-" THEN -mag ELSE mag,
                            ScanDigits(s, x1))
        ELSE Float(neg, int \o frac, Len(int), 0, e2)

\* the fraction part, from place e1 on
ScanFrac(s, j, e1) ==
    IF e1 <= Len(s) /\ s[e1] = "."
    THEN IF ScanDigits(s, e1 + 1) = e1 + 1 THEN Fail
         ELSE ScanExp(s, j, e1, SubSeq(s, e1 + 1, ScanDigits(s, e1 + 1) - 1),
                      ScanDigits(s, e1 + 1))
    ELSE ScanExp(s, j, e1, <<>>, e1)

\* a number: -? (0 | [1-9][0-9]*) (. [0-9]+)? ([eE] [+-]? [0-9]+)?
\* i is the place of its first character
ScanNumber(s, i) ==
    LET j == IF s[i] = "-" THEN i + 1 ELSE i
    IN  IF j > Len(s) \/ s[j] \notin Digits THEN Fail
        ELSE ScanFrac(s, j, IF s[j] = "0" THEN j + 1 ELSE ScanDigits(s, j))

RECURSIVE ParseValue(_, _)
RECURSIVE ParseMembers(_, _, _, _)
RECURSIVE ParseElems(_, _, _, _)
RECURSIVE AfterElem(_, _, _, _)
RECURSIVE AfterKey(_, _, _, _)
RECURSIVE AfterMember(_, _, _, _, _)

\* the value read, with the error saved before it or while reading it
Read(p, v, saved) == IF saved THEN Saved(p, v) ELSE Ok(p, v)

\* v is the element read: a ']' or a ',' follows; saved is TRUE when an
\* error was saved while the elements before it were read
AfterElem(s, acc, v, saved) ==
    IF ~v.ok THEN Fail
    ELSE LET e == SkipSpace(s, v.pos)
         IN  IF e > Len(s) THEN Fail
             ELSE IF s[e] = "]"
                  THEN Read(e + 1, ArrV(Append(acc, v.v)), saved \/ v.saved)
             ELSE IF s[e] = ","
                  THEN ParseElems(s, SkipSpace(s, e + 1), Append(acc, v.v),
                                  saved \/ v.saved)
             ELSE Fail

\* j is the place of the first character of the next element
ParseElems(s, j, acc, saved) == AfterElem(s, acc, ParseValue(s, j), saved)

\* v is the value read for the key: a '}' or a ',' follows; saved is TRUE
\* when an error was saved while the members before it were read
AfterMember(s, m, key, v, saved) ==
    IF ~v.ok THEN Fail
    ELSE LET e == SkipSpace(s, v.pos)
         IN  IF e > Len(s) THEN Fail
             ELSE IF s[e] = "}"
                  THEN Read(e + 1, ObjV(Put(m, key, v.v)), saved \/ v.saved)
             ELSE IF s[e] = ","
                  THEN ParseMembers(s, SkipSpace(s, e + 1), Put(m, key, v.v),
                                    saved \/ v.saved)
             ELSE Fail

\* k is the key read: a ':' and the value follow
AfterKey(s, m, k, saved) ==
    IF ~k.ok THEN Fail
    ELSE LET c == SkipSpace(s, k.pos)
         IN  IF c > Len(s) \/ s[c] # ":" THEN Fail
             ELSE AfterMember(s, m, k.v.s, ParseValue(s, SkipSpace(s, c + 1)),
                              saved)

\* j is the place of the opening quote of the next key
ParseMembers(s, j, m, saved) ==
    IF j > Len(s) \/ s[j] # QUOTE THEN Fail
    ELSE AfterKey(s, m, ScanString(s, j + 1, <<>>), saved)

\* i is the place of the first character of the value
ParseValue(s, i) ==
    IF i > Len(s) THEN Fail
    ELSE IF s[i] = "{"
         THEN LET j == SkipSpace(s, i + 1)
              IN  IF j <= Len(s) /\ s[j] = "}" THEN Ok(j + 1, ObjV(EmptyMap))
                  ELSE ParseMembers(s, j, EmptyMap, FALSE)
    ELSE IF s[i] = "["
         THEN LET j == SkipSpace(s, i + 1)
              IN  IF j <= Len(s) /\ s[j] = "]" THEN Ok(j + 1, ArrV(<<>>))
                  ELSE ParseElems(s, j, <<>>, FALSE)
    ELSE IF s[i] = QUOTE THEN ScanString(s, i + 1, <<>>)
    ELSE IF s[i] \in Digits \cup {"-"} THEN ScanNumber(s, i)
    ELSE IF HasPrefixAt(s, i, <<"n", "u", "l", "l">>) THEN Ok(i + 4, Nil)
    ELSE IF HasPrefixAt(s, i, <<"t", "r", "u", "e">>)
         THEN Ok(i + 4, BoolV(<<"t", "r", "u", "e">>))
    ELSE IF HasPrefixAt(s, i, <<"f", "a", "l", "s", "e">>)
         THEN Ok(i + 5, BoolV(<<"f", "a", "l", "s", "e">>))
    ELSE Fail

\* r is the value read at the start of data: a syntax error, a saved
\* error, or a value that is neither an object nor null, is an error
Decoded(data, r) ==
    IF ~r.ok \/ SkipSpace(data, r.pos) <= Len(data)
    THEN [err |-> TRUE, tmp |-> ObjV(EmptyMap)]
    ELSE IF r.saved THEN [err |-> TRUE, tmp |-> ObjV(EmptyMap)]
    ELSE IF r.v.kind = "obj" THEN [err |-> FALSE, tmp |-> r.v]
    ELSE IF r.v.kind = "null" THEN [err |-> FALSE, tmp |-> Nil]
    ELSE [err |-> TRUE, tmp |-> ObjV(EmptyMap)]

\* err := json.Unmarshal(data, &tmp) for tmp := map[string]interface{}{}:
\* a syntax error, a number out of range, or a value that is neither an
\* object nor null, is an error; null is none, and sets the map to nil.
Unmarshal(data) == Decoded(data, ParseValue(data, SkipSpace(data, 1)))

----------------------------------------------------------------------------
(* The syntax tree (hcl/ast). Every node is a record of one shape:         *)
(*   kind   "File", "ObjectList", "ObjectItem", "ObjectKey", "LiteralType",*)
(*          "ListType", "ObjectType", or "Comment" (a kind visit's switch  *)
(*          does not name)                                                 *)
(*   text   Token.Text of a key or a literal                               *)
(*   ttype  Token.Type of a key or a literal                               *)
(*   assign Assign.Line of an object item                                  *)
(*   keys   Keys of an object item                                         *)
(*   kids   File: <<Node>>; ObjectList: Items; ObjectItem: <<Val>>;        *)
(*          ObjectType: <<List>>; ListType: List                           *)

\* const safeChars
safeChars ==
    {"a", "b", "c", "d", "e", "f", "g", "h", "i", "j", "k", "l", "m", "n",
     "o", "p", "q", "r", "s", "t", "u", "v", "w", "x", "y", "z",
     "A", "B", "C", "D", "E", "F", "G", "H", "I", "J", "K", "L", "M", "N",
     "O", "P", "Q", "R", "S", "T", "U", "V", "W", "X", "Y", "Z",
     "0", "1", "2", "3", "4", "5", "6", "7", "8", "9", "-", "_"}

\* t.Token.Type = 10 (token.HEREDOC)
HEREDOC == 10

Leaf(kind, text, ttype) ==
    [kind |-> kind, text |-> text, ttype |-> ttype, assign |-> 0,
     keys |-> <<>>, kids |-> <<>>]
Inner(kind, kids) ==
    [kind |-> kind, text |-> <<>>, ttype |-> 0, assign |-> 0,
     keys |-> <<>>, kids |-> kids]

\* the nodes as the JSON parser builds them: string tokens (token.STRING = 9)
\* keep the quotes of the JSON text, number tokens are token.NUMBER = 6, and
\* no object item has its Assign position set
ObjectKey(text) == Leaf("ObjectKey", text, 9)
StringLit(text) == Leaf("LiteralType", text, 9)
NumberLit(text) == Leaf("LiteralType", text, 6)
Comment == Leaf("Comment", <<>>, 0)
ObjectList(items) == Inner("ObjectList", items)
ObjectType(items) == Inner("ObjectType", <<ObjectList(items)>>)
ListType(elems) == Inner("ListType", elems)
File(items) == Inner("File", <<ObjectList(items)>>)
ObjectItem(keys, val) ==
    [kind |-> "ObjectItem", text |-> <<>>, ttype |-> 0, assign |-> 0,
     keys |-> keys, kids |-> <<val>>]

----------------------------------------------------------------------------
(* astSanitizer. Every operator returns the node as the call leaves it and *)
(* ok = FALSE when the call ended in a runtime panic (a slice expression   *)
(* out of range), which unwinds every enclosing call.                      *)

\* IsSafe with the first character tested only
IsSafeFirstChar(v) == Len(v) = 0 \/ v[1] \in safeChars

\* lines 69-75: every character of v is one of safeChars
IsSafe(v) == \A i \in 1..Len(v) : v[i] \in safeChars

\* lines 66-79: the first key of an object item
UnquoteKey(k) ==
    LET text == k.text
    IN  IF text # <<>> /\ text[1] = QUOTE /\ text[Len(text)] = QUOTE
        THEN IF Len(text) = 1
             THEN [n |-> k, ok |-> FALSE]       \* text[1:0] panics
             ELSE LET v == SubSeq(text, 2, Len(text) - 1)
                  IN  [n |-> IF IsSafe(v) THEN [k EXCEPT !.text = v] ELSE k,
                       ok |-> TRUE]
        ELSE [n |-> k, ok |-> TRUE]

\* UnquoteKeys without the test i == 0
UnquoteAllKeys(keys) ==
    [keys |-> [i \in 1..Len(keys) |-> UnquoteKey(keys[i]).n],
     ok |-> \A i \in 1..Len(keys) : UnquoteKey(keys[i]).ok]

\* lines 64-81: for i, k := range o.Keys { if i == 0 { ... } }
UnquoteKeys(keys) ==
    IF Len(keys) = 0 THEN [keys |-> keys, ok |-> TRUE]
    ELSE LET r == UnquoteKey(keys[1])
         IN  [keys |-> [keys EXCEPT ![1] = r.n], ok |-> r.ok]

\* lines 85-88: the quotes stripped, the escapes undone
HeredocBody(text) ==
    LET t1 == SubSeq(text, 2, Len(text))
        t2 == SubSeq(t1, 1, Len(t1) - 1)
        t3 == Replace(t2, <<BSL, "n">>, <<NL>>)
    IN  Replace(t3, <<BSL, "t">>, <<>>)

\* lines 99-108: the heredoc text of the lines when json.Unmarshal returned
\* u for the lines between the first and the last, the text as it is when
\* that was an error
HereDoc(text, lines, u) ==
    IF u.err THEN text
    ELSE Join(<<lines[1]>> \o Split(MarshalIndent(u.tmp)) \o <<lines[Len(lines)]>>)

\* lines 93-95: the lines between the first and the last, \" unescaped
JsonTest(lines) ==
    Replace(Join(SubSeq(lines, 2, Len(lines) - 1)), <<BSL, QUOTE>>, <<QUOTE>>)

\* lines 91-109: the text of the heredoc with its JSON body indented, when
\* the body is JSON; undefined (a panic) when the text has a single line
Reindent(text) == HereDoc(text, Split(text), Unmarshal(JsonTest(Split(text))))

\* lines 82-112: switch t := o.Val.(type)
Heredoc(val) ==
    IF val.kind = "LiteralType" /\ HasPrefix(val.text, <<QUOTE, "<", "<">>)
    THEN LET body == HeredocBody(val.text)
             t == [val EXCEPT !.text = body, !.ttype = HEREDOC]
         IN  IF Len(Split(body)) < 2
             THEN [n |-> t, ok |-> FALSE]       \* lines[1:0] panics
             ELSE [n |-> [t EXCEPT !.text = Reindent(body)], ok |-> TRUE]
    ELSE [n |-> val, ok |-> TRUE]

RECURSIVE visit(_)
RECURSIVE visitItems(_, _)
RECURSIVE visitObjectItem(_)

\* visitObjectItem without line 115
visitObjectItemNoAssign(o) ==
    LET k == UnquoteKeys(o.keys)
        o1 == [o EXCEPT !.keys = k.keys]
    IN  IF ~k.ok THEN [n |-> o1, ok |-> FALSE]
        ELSE LET h == Heredoc(o1.kids[1])
                 o2 == [o1 EXCEPT !.kids = <<h.n>>]
             IN  IF ~h.ok THEN [n |-> o2, ok |-> FALSE]
                 ELSE LET r == visit(o2.kids[1])
                      IN  [n |-> [o2 EXCEPT !.kids = <<r.n>>], ok |-> r.ok]

\* func (v *astSanitizer) visitObjectItem(o *ast.ObjectItem)
visitObjectItem(o) ==
    LET k == UnquoteKeys(o.keys)
        o1 == [o EXCEPT !.keys = k.keys]
    IN  IF ~k.ok THEN [n |-> o1, ok |-> FALSE]
        ELSE LET h == Heredoc(o1.kids[1])
                 o2 == [o1 EXCEPT !.kids = <<h.n>>]
             IN  IF ~h.ok THEN [n |-> o2, ok |-> FALSE]
                 ELSE LET o3 == [o2 EXCEPT !.assign = 1]
                          r == visit(o3.kids[1])
                      IN  [n |-> [o3 EXCEPT !.kids = <<r.n>>], ok |-> r.ok]

\* lines 42-49: the loop over t.Items
visitItems(items, index) ==
    IF index = Len(items) + 1 THEN [items |-> items, ok |-> TRUE]
    ELSE LET r == visit(items[index])
             done == [items EXCEPT ![index] = r.n]
         IN  IF r.ok THEN visitItems(done, index + 1)
             ELSE [items |-> done, ok |-> FALSE]

\* func (v *astSanitizer) visit(n interface{})
visit(n) ==
    IF n.kind = "File" \/ n.kind = "ObjectType"
    THEN LET r == visit(n.kids[1])
         IN  [n |-> [n EXCEPT !.kids = <<r.n>>], ok |-> r.ok]
    ELSE IF n.kind = "ObjectList"
    THEN LET r == visitItems(n.kids, 1)
         IN  [n |-> [n EXCEPT !.kids = r.items], ok |-> r.ok]
    ELSE IF n.kind = "ObjectItem" THEN visitObjectItem(n)
    ELSE [n |-> n, ok |-> TRUE]   \* key, literal, list: nothing; default: a print

----------------------------------------------------------------------------
(* hclPrint: the patches of the rendered text, lines 129-144 *)

\* lines 131-135: remove extra whitespace, but leave it between resources
Whitespace(s) ==
    Replace(Replace(s, <<NL, NL>>, <<NL>>),
            <<"}", NL, "r", "e", "s", "o", "u", "r", "c", "e">>,
            <<"}", NL, NL, "r", "e", "s", "o", "u", "r", "c", "e">>)

\* lines 137-140: quotes are not escaped next to a parenthesis
ParenQuotes(s) ==
    Replace(Replace(s, <<"(", BSL, QUOTE>>, <<"(", QUOTE>>),
            <<BSL, QUOTE, ")">>, <<QUOTE, ")">>)

EscLt == <<BSL, "u", "0", "0", "3", "c">>
EscGt == <<BSL, "u", "0", "0", "3", "e">>

\* AngleBrackets without line 144
AngleBracketsLtOnly(s) == Replace(s, EscLt, <<"<">>)

\* lines 142-144: we don't need to escape > or <
AngleBrackets(s) == Replace(Replace(s, EscLt, <<"<">>), EscGt, <<">">>)

\* s as handed to hcl_printer.Format
Fixups(s) == AngleBrackets(ParenQuotes(s))

----------------------------------------------------------------------------
(* HclPrint: the document builder, lines 168-198 *)

NoError == [msg |-> "", type |-> <<>>, name |-> <<>>]
DuplicateError(type, nm) ==
    [msg |-> "duplicate resource found", type |-> type, name |-> nm]

RECURSIVE GroupFrom(_, _, _)
\* lines 171-185: for _, res := range resources
GroupFrom(rs, i, byType) ==
    IF i > Len(rs) THEN [err |-> NoError, resourcesByType |-> byType]
    ELSE LET res == rs[i]
             r == IF res.ResourceType \in DOMAIN byType
                  THEN byType[res.ResourceType] ELSE EmptyMap
             tfn == TfSanitize(res.ResourceName)
         IN  IF Lookup(r, tfn) # Nil
             THEN [err |-> DuplicateError(res.ResourceType, tfn),
                   resourcesByType |-> byType]
             ELSE GroupFrom(rs, i + 1,
                            Put(byType, res.ResourceType, Put(r, tfn, res.Item)))

\* lines 187-189: data, as the value json.MarshalIndent writes
Data(byType, prov) ==
    ObjV(Put(Put(EmptyMap, <<"r", "e", "s", "o", "u", "r", "c", "e">>,
                 ObjV([ty \in DOMAIN byType |-> ObjV(byType[ty])])),
             <<"p", "r", "o", "v", "i", "d", "e", "r">>, prov))

\* UndoLt without the replacement
UndoLtNot(text) == text

\* line 194: strings.Replace(dataJson, "\\u003c", "<", -1)
UndoLt(text) == Replace(text, EscLt, <<"<">>)

\* lines 192-194: the text handed to hcl_parcer.Parse
DataJson(byType, prov) == UndoLt(MarshalIndent(Data(byType, prov)))

----------------------------------------------------------------------------
(* The calls *)

\* tfName := TfSanitize(name), then once more on its own result
TfSanitizeCall ==
    /\ pc \in {"start", "once"}
    /\ IF pc = "start"
       THEN tfName' = TfSanitize(name) /\ tfName2' = tfName2 /\ pc' = "once"
       ELSE tfName' = tfName /\ tfName2' = TfSanitize(tfName) /\ pc' = "twice"
    /\ UNCHANGED <<name, resources, provider, hclErr, hclOut, dataJson, node, node0,
                   panicked, rendered, spaced, patched>>

\* HclPrint(resources, provider) up to the call of hcl_parcer.Parse: pc is
\* "done" when it has returned an error, "parse" when dataJson is handed to
\* the parser
HclPrintCall ==
    /\ pc = "start"
    /\ LET g == GroupFrom(resources, 1, EmptyMap)
       IN  IF g.err # NoError
           THEN /\ hclErr' = g.err
                /\ hclOut' = <<>>
                /\ dataJson' = <<>>
                /\ pc' = "done"
           ELSE /\ hclErr' = NoError
                /\ hclOut' = <<>>
                /\ dataJson' = DataJson(g.resourcesByType, provider)
                /\ pc' = "parse"
    /\ UNCHANGED <<name, tfName, tfName2, resources, provider, node, node0, panicked,
                   rendered, spaced, patched>>

\* sanitizer.visit(node), line 122
Sanitize ==
    /\ pc = "start"
    /\ LET r == visit(node)
       IN  /\ node' = r.n
           /\ panicked' = ~r.ok
    /\ pc' = "done"
    /\ UNCHANGED <<name, tfName, tfName2, resources, provider, hclErr, hclOut, dataJson,
                   node0, rendered, spaced, patched>>

\* hclPrint from s := b.String() to the call of hcl_printer.Format
hclPrintPatch ==
    /\ pc = "start"
    /\ spaced' = Whitespace(rendered)
    /\ patched' = Fixups(spaced')
    /\ pc' = "done"
    /\ UNCHANGED <<name, tfName, tfName2, resources, provider, hclErr, hclOut, dataJson,
                   node, node0, panicked, rendered>>

----------------------------------------------------------------------------
(* Inputs *)

Q(s) == <<QUOTE>> \o s \o <<QUOTE>>

MaxNameLen == 4
NameChars == {"*", ".", "/", "a", "-"}
Names == SeqsUpTo(NameChars, MaxNameLen)

InitName ==
    /\ pc = "start"
    /\ name \in Names /\ tfName = <<>> /\ tfName2 = <<>>
    /\ resources = <<>> /\ provider = Nil
    /\ hclErr = NoError /\ hclOut = <<>> /\ dataJson = <<>>
    /\ node = Comment /\ node0 = Comment /\ panicked = FALSE
    /\ rendered = <<>> /\ spaced = <<>> /\ patched = <<>>

SpecName == InitName /\ [][TfSanitizeCall]_vars

\* The resources of a call: at most MaxResources entries, two types, names
\* that sanitize to the same name or to different ones, and items that are
\* nil, a string with '<' in it, or a map with '<' and '>' in it.
MaxResources == 2
ResourceTypes == {<<"t">>, <<"u">>}
ResourceNames == {<<"a", ".", "b">>, <<"a", "-", "b">>, <<"*", ".", "c">>, <<"c">>}
Items ==
    {Nil, StrV(<<"<", "<", "X">>), ObjV(Put(EmptyMap, <<"k">>, StrV(<<"<", ">">>)))}
TerraformResources ==
    [ResourceType : ResourceTypes, ResourceName : ResourceNames, Item : Items]
Providers == {Nil, ObjV(EmptyMap), ObjV(Put(EmptyMap, <<"p">>, ObjV(EmptyMap)))}

InitBuild ==
    /\ pc = "start"
    /\ name = <<>> /\ tfName = <<>> /\ tfName2 = <<>>
    /\ resources \in SeqsUpTo(TerraformResources, MaxResources)
    /\ provider \in Providers
    /\ hclErr = NoError /\ hclOut = <<>> /\ dataJson = <<>>
    /\ node = Comment /\ node0 = Comment /\ panicked = FALSE
    /\ rendered = <<>> /\ spaced = <<>> /\ patched = <<>>

SpecBuild == InitBuild /\ [][HclPrintCall]_vars

\* The trees of a call. Keys are the quoted strings of the JSON text: one
\* within the safe alphabet, one with a '.', one with a space, and the
\* empty one. Values are a string, a number, three heredoc strings (a JSON
\* body, a body that is not JSON, a single line), a node of a kind visit
\* does not name, an object, and a list holding an object, nested up to
\* MaxDepth levels (so that an item inside a list has an object for its value).
KeyTexts ==
    {Q(<<"a", "-", "B", "_", "9">>), Q(<<"a", ".", "b">>), Q(<<"a", " ", "b">>),
     Q(<<>>)}
KeyLists ==
    {<<ObjectKey(k)>> : k \in KeyTexts}
    \cup {<<ObjectKey(k1), ObjectKey(k2)>> :
            k1 \in {Q(<<"r">>), Q(<<"a", ".", "b">>)},
            k2 \in {Q(<<"n">>), Q(<<"a", " ", "b">>)}}
JsonHeredoc == Q(<<"<", "<", "X", BSL, "n", "{", BSL, QUOTE, "k", BSL, QUOTE, ":", " ", "1", "}", BSL, "n", "X">>)
TextHeredoc == Q(<<"<", "<", "X", BSL, "n", BSL, "t", "a", "b", BSL, "n", "X">>)
LineHeredoc == Q(<<"<", "<", "X">>)
LeafVals ==
    {StringLit(Q(<<"v">>)), NumberLit(<<"1">>), StringLit(JsonHeredoc),
     StringLit(TextHeredoc), StringLit(LineHeredoc), Comment}

MaxDepth == 2
MaxItems == 2

RECURSIVE ItemsOfDepth(_)
\* the object items whose values nest at most d levels of objects or lists
ItemsOfDepth(d) ==
    LET leaves == {ObjectItem(ks, v) : ks \in KeyLists, v \in LeafVals}
    IN  IF d = 0 THEN leaves
        ELSE LET below == ItemsOfDepth(d - 1)
             IN  leaves
                 \cup {ObjectItem(<<ObjectKey(Q(<<"o">>)), ObjectKey(Q(<<"n">>))>>,
                                  ObjectType(<<i>>)) : i \in below}
                 \cup {ObjectItem(<<ObjectKey(Q(<<"l">>))>>,
                                  ListType(<<ObjectType(<<i>>)>>)) : i \in below}

\* the items that come before or after the one under test
Siblings ==
    {ObjectItem(<<ObjectKey(Q(<<"s">>))>>, StringLit(Q(<<"v">>))),
     ObjectItem(<<ObjectKey(Q(<<"o">>)), ObjectKey(Q(<<"n">>))>>,
                ObjectType(<<ObjectItem(<<ObjectKey(Q(<<"c">>))>>,
                                        NumberLit(<<"1">>))>>))}

Trees ==
    {File(pre \o <<i>> \o post) :
        i \in ItemsOfDepth(MaxDepth),
        pre \in SeqsUpTo(Siblings, 1),
        post \in SeqsUpTo(Siblings, MaxItems - 1)}

InitTree ==
    /\ pc = "start"
    /\ name = <<>> /\ tfName = <<>> /\ tfName2 = <<>>
    /\ resources = <<>> /\ provider = Nil
    /\ hclErr = NoError /\ hclOut = <<>> /\ dataJson = <<>>
    /\ node0 \in Trees /\ node = node0 /\ panicked = FALSE
    /\ rendered = <<>> /\ spaced = <<>> /\ patched = <<>>

SpecTree == InitTree /\ [][Sanitize]_vars

\* The heredoc literals of a call: "<<X, then an escaped newline or none,
\* then at most MaxFrags pieces of JSON text, then the closing line or none.
MaxFrags == 4
BodyFrags ==
    {<<"{", BSL, QUOTE, "k", BSL, QUOTE, ":">>, <<"}">>, <<"{", "}">>, <<"1">>,
     <<"n", "u", "l", "l">>, <<",", BSL, QUOTE, "j", BSL, QUOTE, ":", BSL, QUOTE, "<", BSL, QUOTE>>,
     <<BSL, "t", " ">>, <<BSL, "n">>}
\* a token whose body keeps a tab escape after line 88: of \\tt the
\* replacement removes the inner \t and leaves backslash-t, which the JSON
\* string reads as a tab and writes back as \t
TabHeredoc == Q(<<"<", "<", "X", BSL, "n", "{", BSL, QUOTE, "k", BSL, QUOTE, ":", BSL, QUOTE, BSL, BSL, "t", "t", "Z", BSL, QUOTE, "}", BSL, "n", "X">>)
\* a token whose body holds the escape json.MarshalIndent wrote for '>' at
\* line 192, which line 194 leaves in the text
GtHeredoc == Q(<<"<", "<", "X", BSL, "n", "{", BSL, QUOTE, "k", BSL, QUOTE, ":", BSL, QUOTE, BSL, "u", "0", "0", "3", "e", BSL, QUOTE, "}", BSL, "n", "X">>)
\* tokens whose bodies hold a number that float64 rounds (to 1e16) and a
\* number out of its range
RoundHeredoc == Q(<<"<", "<", "X", BSL, "n", "{", BSL, QUOTE, "k", BSL, QUOTE, ":", "9", "9", "9", "9", "9", "9", "9", "9", "9", "9", "9", "9", "9", "9", "9", "9", "}", BSL, "n", "X">>)
RangeHeredoc == Q(<<"<", "<", "X", BSL, "n", "{", BSL, QUOTE, "k", BSL, QUOTE, ":", "1", "e", "4", "0", "0", "}", BSL, "n", "X">>)
\* a token whose body holds a number out of range under a key that comes
\* once more: the decoder's error stays when the value is replaced
SavedHeredoc == Q(<<"<", "<", "X", BSL, "n", "{", BSL, QUOTE, "k", BSL, QUOTE, ":", "1", "e", "4", "0", "0", ",", BSL, QUOTE, "k", BSL, QUOTE, ":", "1", "}", BSL, "n", "X">>)
\* a token whose body holds an array and numbers with a fraction and an
\* exponent
ListHeredoc == Q(<<"<", "<", "X", BSL, "n", "{", BSL, QUOTE, "k", BSL, QUOTE, ":", "[", "1", ".", "5", "0", ",", "1", "e", "2", "]", "}", BSL, "n", "X">>)
HeredocTexts ==
    {TabHeredoc, GtHeredoc, ListHeredoc, RoundHeredoc, RangeHeredoc,
     SavedHeredoc} \cup
    {Q(<<"<", "<", "X">> \o head \o Concat(fs) \o tail) :
        head \in {<<>>, <<BSL, "n">>},
        tail \in {<<>>, <<BSL, "n", "X">>},
        fs \in SeqsUpTo(BodyFrags, MaxFrags)}

InitHeredoc ==
    /\ pc = "start"
    /\ name = <<>> /\ tfName = <<>> /\ tfName2 = <<>>
    /\ resources = <<>> /\ provider = Nil
    /\ hclErr = NoError /\ hclOut = <<>> /\ dataJson = <<>>
    /\ node0 \in {File(<<ObjectItem(<<ObjectKey(Q(<<"k">>))>>, StringLit(txt))>>) :
                    txt \in HeredocTexts}
    /\ node = node0 /\ panicked = FALSE
    /\ rendered = <<>> /\ spaced = <<>> /\ patched = <<>>

SpecHeredoc == InitHeredoc /\ [][Sanitize]_vars

\* The texts the printer renders: at most MaxPieces pieces, chosen so that
\* runs of newlines, closing braces and the resource keyword meet.
MaxPieces == 5
SpacePieces ==
    {<<NL>>, <<"}">>, <<"r", "e", "s", "o", "u", "r", "c", "e">>, <<"a">>, <<" ">>}

InitSpace ==
    /\ pc = "start"
    /\ name = <<>> /\ tfName = <<>> /\ tfName2 = <<>>
    /\ resources = <<>> /\ provider = Nil
    /\ hclErr = NoError /\ hclOut = <<>> /\ dataJson = <<>>
    /\ node = Comment /\ node0 = Comment /\ panicked = FALSE
    /\ rendered \in {Concat(ps) : ps \in SeqsUpTo(SpacePieces, MaxPieces)}
    /\ spaced = <<>> /\ patched = <<>>

SpecSpace == InitSpace /\ [][hclPrintPatch]_vars

\* ... and pieces chosen so that escapes, halves of escapes and the
\* patterns of the other patches meet.
MaxEscPieces == 4
EscPieces ==
    {EscLt, EscGt, <<BSL, "u", "0", "0", "3">>, <<BSL, "u", "0", "0">>, <<BSL>>,
     <<"3">>, <<"c">>, <<"e">>, <<"<">>, <<">">>,
     <<"(", BSL, QUOTE>>, <<BSL, QUOTE, ")">>, <<NL>>}

InitEscape ==
    /\ pc = "start"
    /\ name = <<>> /\ tfName = <<>> /\ tfName2 = <<>>
    /\ resources = <<>> /\ provider = Nil
    /\ hclErr = NoError /\ hclOut = <<>> /\ dataJson = <<>>
    /\ node = Comment /\ node0 = Comment /\ panicked = FALSE
    /\ rendered \in {Concat(ps) : ps \in SeqsUpTo(EscPieces, MaxEscPieces)}
    /\ spaced = <<>> /\ patched = <<>>

SpecEscape == InitEscape /\ [][hclPrintPatch]_vars

----------------------------------------------------------------------------
(* Claims *)

\* C4: TfSanitize is idempotent: sanitizing a sanitized name returns it
\* unchanged, whatever '.', '/' and "*." the name holds.
C4_Idempotent == pc = "twice" => tfName2 = tfName

C4_Witness ==
    /\ pc = "twice"
    /\ Contains(name, <<"*", ".">>) /\ Contains(name, <<"/">>)
    /\ tfName # name /\ tfName2 = tfName

\* two entries of the list have the same type and the same sanitized name
HasDuplicate(rs) ==
    \E i, j \in 1..Len(rs) :
        /\ i < j
        /\ rs[i].ResourceType = rs[j].ResourceType
        /\ TfSanitize(rs[i].ResourceName) = TfSanitize(rs[j].ResourceName)

\* C1: whenever two entries share the type and the sanitized name, HclPrint
\* returns the duplicate-resource error and empty output, and never goes on
\* to build the document.
C1_DuplicateIsError ==
    (pc # "start" /\ HasDuplicate(resources)) =>
        /\ pc = "done"
        /\ hclErr.msg = "duplicate resource found"
        /\ hclOut = <<>>

\* C9: the text handed to Parse holds neither \u003c nor \u003e.
C9_BothUndone ==
    pc = "parse" => ~Contains(dataJson, EscLt) /\ ~Contains(dataJson, EscGt)

\* some string of the document holds the character c
RECURSIVE ValueHas(_, _)
ValueHas(v, c) ==
    \/ v.kind = "str" /\ Contains(v.s, <<c>>)
    \/ v.kind = "obj" /\ \E k \in DOMAIN v.m : Contains(k, <<c>>) \/ ValueHas(v.m[k], c)
DocumentHas(c) ==
    \/ ValueHas(provider, c)
    \/ \E i \in 1..Len(resources) :
          \/ Contains(resources[i].ResourceType, <<c>>)
          \/ Contains(TfSanitize(resources[i].ResourceName), <<c>>)
          \/ ValueHas(resources[i].Item, c)

\* C9 (amended): the text handed to Parse holds no \u003c, and where a
\* string of the document holds '<' the text holds the literal character;
\* the escapes \u003e written for '>' are still in it.
C9_LtUndone ==
    pc = "parse" =>
        /\ ~Contains(dataJson, EscLt)
        /\ DocumentHas("<") => Contains(dataJson, <<"<">>)
        /\ DocumentHas(">") => Contains(dataJson, EscGt)
        /\ ~Contains(dataJson, <<">">>)

C9_Witness ==
    /\ pc = "parse"
    /\ DocumentHas("<") /\ DocumentHas(">")
    /\ Contains(dataJson, <<"<">>) /\ Contains(dataJson, EscGt)

----------------------------------------------------------------------------
(* Claims about the sanitizer *)

RECURSIVE ItemPairs(_, _, _)
\* the object items of the tree n, each with the item n0 it was before the
\* call and with inList = TRUE when it lies inside a list value
ItemPairs(n0, n, inList) ==
    (IF n.kind = "ObjectItem"
     THEN {[o0 |-> n0, o |-> n, inList |-> inList]} ELSE {})
    \cup UNION {ItemPairs(n0.kids[i], n.kids[i], inList \/ n.kind = "ListType") :
                  i \in 1..Len(n.kids)}

AllItems == ItemPairs(node0, node, FALSE)

Quoted(text) == Len(text) >= 2 /\ text[1] = QUOTE /\ text[Len(text)] = QUOTE
Content(text) == SubSeq(text, 2, Len(text) - 1)
InAlphabet(v) == \A i \in 1..Len(v) : v[i] \in safeChars

\* C2: visit runs to completion on every tree, whatever the texts are.
C2_NeverAborts == pc = "done" => ~panicked

\* C3: once the tree is sanitized, every quoted key whose content lies in
\* the identifier-safety alphabet has lost its quotes, and every key with a
\* character outside the alphabet has kept its text.
C3_EveryKey ==
    (pc = "done" /\ ~panicked) =>
        \A p \in AllItems : \A i \in 1..Len(p.o.keys) :
            LET text == p.o0.keys[i].text
            IN  p.o.keys[i].text =
                    IF Quoted(text) /\ InAlphabet(Content(text))
                    THEN Content(text) ELSE text

\* C3 (amended): the same of the first key of every object item that is not
\* inside a list value; every other key keeps its text, quotes included.
C3_FirstKey ==
    (pc = "done" /\ ~panicked) =>
        \A p \in AllItems : \A i \in 1..Len(p.o.keys) :
            LET text == p.o0.keys[i].text
            IN  p.o.keys[i].text =
                    IF i = 1 /\ ~p.inList /\ Quoted(text) /\ InAlphabet(Content(text))
                    THEN Content(text) ELSE text

C3_Witness ==
    /\ pc = "done" /\ ~panicked
    /\ \E p \in AllItems :
          /\ Len(p.o.keys) = 2
          /\ p.o.keys[1].text = <<"o">> /\ p.o0.keys[1].text = Q(<<"o">>)
          /\ p.o.keys[2].text = Q(<<"n">>)
    /\ \E p \in AllItems :
          /\ p.o0.keys[1].text = Q(<<"a", ".", "b">>)
          /\ p.o.keys[1].text = Q(<<"a", ".", "b">>)

\* the call has changed the keys of the item p as visitObjectItem does: no
\* key after the first, and the first by removing its quotes at most
KeysOfFirstOnly(p) ==
    /\ \A i \in 2..Len(p.o.keys) : p.o.keys[i] = p.o0.keys[i]
    /\ \/ p.o.keys[1] = p.o0.keys[1]
       \/ /\ Quoted(p.o0.keys[1].text)
          /\ p.o.keys[1] =
               [p.o0.keys[1] EXCEPT !.text = Content(p.o0.keys[1].text)]

\* the call has descended into the value of the item p: the items of its
\* object value are visited
Descended(p) ==
    p.o.kids[1].kind = "ObjectType" =>
        \A j \in 1..Len(p.o.kids[1].kids[1].kids) :
            p.o.kids[1].kids[1].kids[j].assign = 1

\* C8: in every object item of two or more keys the call changes no key
\* after the first and changes the first key by removing its quotes at most
\* (in every run, one that panics too), and it still descends into the
\* value: when the call returns, the items of an object value are visited.
C8_AnyItem ==
    pc = "done" =>
        \A p \in AllItems :
            Len(p.o.keys) >= 2 =>
                /\ KeysOfFirstOnly(p)
                /\ ~panicked => Descended(p)

\* C8 (amended): the same of the keys; the call descends into the value of
\* every such item that is not inside a list value, and an item inside a
\* list value is not visited at all: it is as it was before the call, its
\* first key quoted and the items of its value not visited.
C8_FirstKeyOnly ==
    pc = "done" =>
        \A p \in AllItems :
            Len(p.o.keys) >= 2 =>
                /\ KeysOfFirstOnly(p)
                /\ (~panicked /\ ~p.inList) => Descended(p)
                /\ p.inList => p.o = p.o0

C8_Witness ==
    /\ pc = "done" /\ ~panicked
    /\ \E p \in AllItems :
          /\ ~p.inList
          /\ Len(p.o.keys) = 2
          /\ p.o.keys[1].text = <<"o">>
          /\ p.o.keys[2].text = Q(<<"n">>)
          /\ p.o.kids[1].kind = "ObjectType"
          /\ p.o.kids[1].kids[1].kids[1].assign = 1
          /\ p.o0.kids[1].kids[1].kids[1].assign = 0
    /\ \E p \in AllItems :
          /\ p.inList
          /\ Len(p.o.keys) = 2
          /\ p.o.keys[1].text = Q(<<"o">>)
          /\ p.o.kids[1].kind = "ObjectType"
          /\ p.o.kids[1].kids[1].kids[1].assign = 0

\* C10: after the call returns, every object item of the tree has
\* Assign.Line = 1, at any depth, inside list values too.
C10_EveryItem ==
    (pc = "done" /\ ~panicked) => \A p \in AllItems : p.o.assign = 1

\* C10 (amended): after the call returns, every object item that is not
\* inside a list value has Assign.Line = 1; the object items inside a list
\* value are as they were before the call.
C10_OutsideLists ==
    (pc = "done" /\ ~panicked) =>
        \A p \in AllItems :
            IF p.inList THEN p.o = p.o0 ELSE p.o.assign = 1

C10_Witness ==
    /\ pc = "done" /\ ~panicked
    /\ \E p \in AllItems : p.inList /\ p.o.assign = 0
    /\ \E p \in AllItems :
          ~p.inList /\ p.o.assign = 1 /\ p.o.kids[1].kind = "ObjectType"
    /\ \E p \in AllItems :
          ~p.inList /\ p.o.assign = 1 /\ p.o.kids[1].kind = "ListType"

----------------------------------------------------------------------------
(* Claims about heredoc recovery (SpecHeredoc: the tree is one object item *)
(* whose value is a literal starting with "<<)                             *)

Lit0 == node0.kids[1].kids[1].kids[1]
Lit == node.kids[1].kids[1].kids[1]

\* the text after the first three steps
Stripped ==
    Replace(Replace(SubSeq(Lit0.text, 2, Len(Lit0.text) - 1),
                    <<BSL, "n">>, <<NL>>),
            <<BSL, "t">>, <<>>)
StrippedLines == Split(Stripped)
OpenLine == StrippedLines[1]
CloseLine == StrippedLines[Len(StrippedLines)]
\* the lines between the two marker lines, \" unescaped
InnerText ==
    Replace(Join(SubSeq(StrippedLines, 2, Len(StrippedLines) - 1)),
            <<BSL, QUOTE>>, <<QUOTE>>)
InnerValue == ParseValue(InnerText, SkipSpace(InnerText, 1))
InnerParses ==
    InnerValue.ok /\ SkipSpace(InnerText, InnerValue.pos) > Len(InnerText)
Rebuilt ==
    Join(<<OpenLine>> \o Split(MarshalIndent(InnerValue.v)) \o <<CloseLine>>)

\* C7: the literal is a heredoc token; its text is the open line, the
\* indented JSON and the close line when the inner lines are a JSON object,
\* and the stripped text when they are not. (InnerParses is the syntax of
\* JSON alone: a value, and nothing but spaces after it.)
C7_ObjectOnly ==
    pc = "done" =>
        /\ Lit.ttype = HEREDOC
        /\ Lit.text = IF InnerParses /\ InnerValue.v.kind = "obj"
                      THEN Rebuilt ELSE Stripped

----------------------------------------------------------------------------
(* Claims about the patches of hclPrint *)

Count(s, p) == Cardinality({i \in 1..Len(s) : HasPrefixAt(s, i, p)})

\* C5: the text handed to the reformatter holds neither \u003c nor \u003e:
\* each one has become the literal character, and no pass made a new one.
C5_NoEscapes ==
    pc = "done" =>
        LET q == ParenQuotes(spaced)
        IN  /\ ~Contains(patched, EscLt)
            /\ ~Contains(patched, EscGt)
            /\ Count(patched, <<"<">>) = Count(q, <<"<">>) + Count(q, EscLt)
            /\ Count(patched, <<">">>) = Count(q, <<">">>) + Count(q, EscGt)

C5_Witness ==
    /\ pc = "done"
    /\ Contains(rendered, EscLt) /\ Contains(rendered, EscGt)
    /\ Contains(patched, <<"<">>) /\ Contains(patched, <<">">>)
    /\ ~Contains(patched, EscLt) /\ ~Contains(patched, EscGt)

\* a blank line starts at place i of t
BlankAt(t, i) == HasPrefixAt(t, i, <<NL, NL>>)
\* ... and it stands between a closing brace and the resource keyword
BetweenResources(t, i) ==
    /\ i > 1 /\ t[i - 1] = "}"
    /\ HasPrefixAt(t, i + 2, <<"r", "e", "s", "o", "u", "r", "c", "e">>)

\* C6: after the whitespace replacements no blank line is left inside a
\* block, and exactly one stands between each closing brace and the
\* resource block that follows it.
C6_BlankLines ==
    pc = "done" =>
        /\ \A i \in 1..Len(spaced) : BlankAt(spaced, i) => BetweenResources(spaced, i)
        /\ ~Contains(spaced, <<"}", NL, "r", "e", "s", "o", "u", "r", "c", "e">>)

====
